---- MODULE Spec2Model ----
(***************************************************************************)
(* Model of azalea-client/src/packet_decoder.rs: the VarInt and string     *)
(* readers, the recursive NBT parser and the CCA entity_sync decoder.      *)
(*                                                                         *)
(* A byte is a number in 0..255, a buffer a sequence of bytes, a cursor    *)
(* position the number of bytes already read (so the next byte of buffer   *)
(* d at position p is d[p+1]).  i32 values are kept as signed numbers in   *)
(* -2^31..2^31-1; 64-bit values are kept as their two 32-bit words.  usize *)
(* is taken to be 64 bits wide, so an i32 cast to usize is the same number *)
(* when it is >= 0 and a number above isize::MAX when it is negative.      *)
(***************************************************************************)
EXTENDS Integers, Sequences, FiniteSets, TLC

VARIABLES op, data, pc, cur, stack, entity_id, components, result, steps

vars == <<op, data, pc, cur, stack, entity_id, components, result, steps>>

-----------------------------------------------------------------------------
(* Bounds of the model.                                                    *)

\* longest byte sequence handed to read_varint / read_string
MaxVarintLen == 6
\* longest string body handed to read_string
MaxStrLen == 3
\* most entries of a generated top-level compound
MaxTags == 2
\* most components of a generated packet
MaxComponents == 2

-----------------------------------------------------------------------------
(* Fixed-width integers.                                                   *)

Pow2(n) == 2 ^ n

\* `x as i8` for a byte x
AsI8(x) == IF x >= 128 THEN x - 256 ELSE x

\* u16::from_be_bytes
U16BE(b1, b2) == b1 * 256 + b2

\* i16::from_be_bytes
I16BE(b1, b2) == AsI8(b1) * 256 + b2

\* i32::from_be_bytes (f32::from_be_bytes keeps the same 32-bit pattern)
I32BE(b1, b2, b3, b4) == AsI8(b1) * 16777216 + b2 * 65536 + b3 * 256 + b4

\* (v as i32) << shift for a 7-bit group v and shift < 32: the bits shifted
\* past bit 31 are dropped, bit 31 is the sign.
Shl32(v, shift) ==
    IF shift <= 24 THEN v * Pow2(shift)
    ELSE LET keep == 32 - shift
             low  == v % Pow2(keep)
         IN  IF low >= Pow2(keep - 1)
             THEN (low - Pow2(keep)) * Pow2(shift)
             ELSE low * Pow2(shift)

\* result | g where g is a group shifted to bits the accumulator has not
\* set yet: the bitwise OR of disjoint patterns is their sum.
Or32(acc, g) == acc + g

-----------------------------------------------------------------------------
(* read_varint                                                             *)

\* the shift at which the loop gives up
ShiftLimit == 35

VarintFail(p) == [ok |-> FALSE, val |-> 0, pos |-> p]

RECURSIVE VarintLoopLate(_, _, _, _)
\* the mutant: the limit is tested with > (a sixth group is read; its bits
\* fall outside the 32-bit accumulator)
VarintLoopLate(d, p, acc, shift) ==
    IF shift > ShiftLimit THEN VarintFail(p)
    ELSE IF p >= Len(d) THEN VarintFail(p)
    ELSE LET b == d[p + 1]
             r == IF shift >= 32 THEN acc ELSE Or32(acc, Shl32(b % 128, shift))
         IN  IF b < 128
             THEN [ok |-> TRUE, val |-> r, pos |-> p + 1]
             ELSE VarintLoopLate(d, p + 1, r, shift + 7)

RECURSIVE VarintLoopWide(_, _, _, _)
\* the mutant: the shift grows by 8
VarintLoopWide(d, p, acc, shift) ==
    IF shift >= ShiftLimit THEN VarintFail(p)
    ELSE IF p >= Len(d) THEN VarintFail(p)
    ELSE LET b == d[p + 1]
             r == IF shift >= 24 THEN acc ELSE Or32(acc, Shl32(b % 128, shift))
         IN  IF b < 128
             THEN [ok |-> TRUE, val |-> r, pos |-> p + 1]
             ELSE VarintLoopWide(d, p + 1, r, shift + 8)

RECURSIVE VarintLoop(_, _, _, _)
\* the loop of read_varint from position p with accumulator acc
VarintLoop(d, p, acc, shift) ==
    IF shift >= ShiftLimit THEN VarintFail(p)
    ELSE IF p >= Len(d) THEN VarintFail(p)
    ELSE LET b == d[p + 1]
             r == Or32(acc, Shl32(b % 128, shift))
         IN  IF b < 128
             THEN [ok |-> TRUE, val |-> r, pos |-> p + 1]
             ELSE VarintLoop(d, p + 1, r, shift + 7)

ReadVarint(d, p) == VarintLoop(d, p, 0, 0)

-----------------------------------------------------------------------------
(* String::from_utf8                                                       *)

IsCont(b) == b >= 128 /\ b <= 191

RECURSIVE Utf8From(_, _)
Utf8From(b, i) ==
    IF i > Len(b) THEN TRUE
    ELSE LET c == b[i]
             n == Len(b)
         IN  CASE c < 128 -> Utf8From(b, i + 1)
               [] c >= 194 /\ c <= 223 ->
                    i + 1 <= n /\ IsCont(b[i + 1]) /\ Utf8From(b, i + 2)
               [] c >= 224 /\ c <= 239 ->
                    /\ i + 2 <= n
                    /\ IsCont(b[i + 1]) /\ IsCont(b[i + 2])
                    /\ (c = 224 => b[i + 1] >= 160)
                    /\ (c = 237 => b[i + 1] <= 159)
                    /\ Utf8From(b, i + 3)
               [] c >= 240 /\ c <= 244 ->
                    /\ i + 3 <= n
                    /\ IsCont(b[i + 1]) /\ IsCont(b[i + 2]) /\ IsCont(b[i + 3])
                    /\ (c = 240 => b[i + 1] >= 144)
                    /\ (c = 244 => b[i + 1] <= 143)
                    /\ Utf8From(b, i + 4)
               [] OTHER -> FALSE

IsUtf8(b) == Utf8From(b, 1)

\* the bytes of d from position p (0-based), n of them
Slice(d, p, n) == SubSeq(d, p + 1, p + n)

-----------------------------------------------------------------------------
(* read_string                                                             *)

\* vec![0u8; len] / Vec::with_capacity(len) for len = (n as usize): a
\* negative n is a size above isize::MAX, which panics (capacity overflow).
\* A request within isize::MAX is taken to be granted by the allocator.
AllocPanics(n) == n < 0

\* outcome "Some" with the string's bytes, "None", or "Panic"
ReadString(d, p) ==
    LET v == ReadVarint(d, p)
    IN  IF ~v.ok THEN [kind |-> "None", val |-> <<>>, pos |-> v.pos]
        ELSE IF AllocPanics(v.val)
             THEN [kind |-> "Panic", val |-> <<>>, pos |-> v.pos]
        ELSE IF Len(d) - v.pos < v.val
             THEN [kind |-> "None", val |-> <<>>, pos |-> v.pos]
        ELSE IF ~IsUtf8(Slice(d, v.pos, v.val))
             THEN [kind |-> "None", val |-> <<>>, pos |-> v.pos + v.val]
        ELSE [kind |-> "Some", val |-> Slice(d, v.pos, v.val),
              pos |-> v.pos + v.val]

-----------------------------------------------------------------------------
(* NBT values.  A tag value is <<variant, payload>>; a compound is the     *)
(* sequence of its <<name, value>> pairs (NbtCompound.tags); a name or     *)
(* string is the sequence of its UTF-8 bytes.                              *)

Tag(t, v) == <<t, v>>

\* the variant and the payload of a tag value
TagT(x) == x[1]

TagV(x) == x[2]

Running == [kind |-> "Running", why |-> "", val |-> <<>>]

\* Ok(NbtCompound { tags })
OkCompound(tags) == [kind |-> "Ok", why |-> "", val |-> tags]

\* a parser configuration: buffer, cursor position, the active calls of
\* read_nbt_compound / read_nbt_payload (innermost last) and the outcome
Config(d, p, st, out) == [d |-> d, pos |-> p, stack |-> st, out |-> out]

\* an active call: the compound loop, the list loop (tag 9) or an array
\* loop (tags 11, 12).  name: the name read for the entry being decoded;
\* acc: compound.tags / items so far; ltype: list_type or the array's tag;
\* left: iterations of `for _ in 0..len` still to run.
Frame(kind, ltype, left) ==
    [kind |-> kind, name |-> <<>>, acc |-> <<>>, ltype |-> ltype, left |-> left]

Top(c) == c.stack[Len(c.stack)]

Pop(c) == [c EXCEPT !.stack = SubSeq(@, 1, Len(@) - 1)]

Push(c, f) == [c EXCEPT !.stack = Append(@, f)]

SetTop(c, f) == [c EXCEPT !.stack[Len(c.stack)] = f]

Advance(c, n) == [c EXCEPT !.pos = @ + n]

\* read_exact of n bytes succeeds
Avail(c, n) == Len(c.d) - c.pos >= n

\* the byte at offset k (0-based) from the cursor
At(c, k) == c.d[c.pos + k + 1]

\* the `?` on an Err (or a panic unwinding): every active call is dropped
\* and only the message survives
Fail(c, kind, why) ==
    [c EXCEPT !.stack = <<>>, !.out = [kind |-> kind, why |-> why, val |-> <<>>]]

Eof(c) == Fail(c, "Err", "failed to fill whole buffer")

-----------------------------------------------------------------------------
(* read_nbt_string                                                         *)

ReadNbtString(d, p) ==
    IF Len(d) - p < 2 THEN [kind |-> "Err", why |-> "failed to fill whole buffer", val |-> <<>>, pos |-> p]
    ELSE LET len == U16BE(d[p + 1], d[p + 2])
         IN  IF Len(d) - (p + 2) < len
             THEN [kind |-> "Err", why |-> "failed to fill whole buffer", val |-> <<>>, pos |-> p + 2]
             ELSE IF ~IsUtf8(Slice(d, p + 2, len))
             THEN [kind |-> "Err", why |-> "invalid utf-8", val |-> <<>>, pos |-> p + 2 + len]
             ELSE [kind |-> "Ok", why |-> "", val |-> Slice(d, p + 2, len), pos |-> p + 2 + len]

-----------------------------------------------------------------------------
(* A value is returned to the caller.                                      *)

RECURSIVE Return(_, _)
\* c.stack holds the callers; value goes to the innermost one.
\* the mutant: push overwrites an entry of the same name
ReturnDedup(c, value) ==
    IF c.stack = <<>>
    THEN [c EXCEPT !.out = OkCompound(TagV(value))]
    ELSE LET f == Top(c)
             keep == SelectSeq(f.acc, LAMBDA e : e[1] # f.name)
         IN  IF f.kind = "compound"
             THEN SetTop(c, [f EXCEPT !.acc = Append(keep, <<f.name, value>>)])
             ELSE LET g == [f EXCEPT !.acc = Append(@, value), !.left = @ - 1]
                  IN  IF g.left = 0
                      THEN Return(Pop(c), Tag("List", g.acc))
                      ELSE SetTop(c, g)

Return(c, value) ==
    IF c.stack = <<>>
    THEN [c EXCEPT !.out = OkCompound(TagV(value))]
    ELSE LET f == Top(c)
         IN  IF f.kind = "compound"
             THEN SetTop(c, [f EXCEPT !.acc = Append(@, <<f.name, value>>)])
             ELSE LET g == [f EXCEPT !.acc = Append(@, value), !.left = @ - 1]
                  IN  IF g.left = 0
                      THEN Return(Pop(c), Tag("List", g.acc))
                      ELSE SetTop(c, g)

-----------------------------------------------------------------------------
(* read_nbt_payload and read_nbt_compound                                  *)

\* bytes.into_iter().map(|b| b as i8).collect()
SignedBytes(s) == IF s = <<>> THEN <<>> ELSE [i \in 1..Len(s) |-> AsI8(s[i])]

\* a fixed-width payload of n bytes, decoded to value
Fixed(c, n, value) ==
    IF ~Avail(c, n) THEN Eof(c) ELSE Return(Advance(c, n), value)

Word(c, k) == I32BE(At(c, k), At(c, k + 1), At(c, k + 2), At(c, k + 3))

\* the mutant: an entry of unknown type is skipped and the loop goes on
UnknownTagSkipped(c) == c

\* the mutant: an unknown type is taken as a value of no bytes
UnknownTagEmptyValue(c) == Return(c, Tag("End", <<>>))

\* the `_ =>` arm of read_nbt_payload
UnknownTag(c) == Fail(c, "Err", "Unknown NBT tag type")

RECURSIVE CompoundIter(_)

\* read_nbt_payload(cursor, tag_type), up to the point where it returns or
\* enters an element loop
ReadNbtPayload(c, tag) ==
    CASE tag = 1 -> Fixed(c, 1, Tag("Byte", AsI8(At(c, 0))))
      [] tag = 2 -> Fixed(c, 2, Tag("Short", I16BE(At(c, 0), At(c, 1))))
      [] tag = 3 -> Fixed(c, 4, Tag("Int", Word(c, 0)))
      [] tag = 4 -> Fixed(c, 8, Tag("Long", <<Word(c, 0), Word(c, 4)>>))
      [] tag = 5 -> Fixed(c, 4, Tag("Float", Word(c, 0)))
      [] tag = 6 -> Fixed(c, 8, Tag("Double", <<Word(c, 0), Word(c, 4)>>))
      [] tag = 7 ->
           IF ~Avail(c, 4) THEN Eof(c)
           ELSE LET len == Word(c, 0)
                    b   == Advance(c, 4)
                IN  IF AllocPanics(len) THEN Fail(b, "Panic", "capacity overflow")
                    ELSE IF ~Avail(b, len) THEN Eof(b)
                    ELSE Return(Advance(b, len),
                                Tag("ByteArray", SignedBytes(Slice(b.d, b.pos, len))))
      [] tag = 8 ->
           LET s == ReadNbtString(c.d, c.pos)
           IN  IF s.kind = "Err" THEN Fail(c, "Err", s.why)
               ELSE Return([c EXCEPT !.pos = s.pos], Tag("String", s.val))
      [] tag = 9 ->
           IF ~Avail(c, 1) THEN Eof(c)
           ELSE IF ~Avail(c, 5) THEN Eof(Advance(c, 1))
           ELSE LET list_type == At(c, 0)
                    len == Word(c, 1)
                    b   == Advance(c, 5)
                IN  IF AllocPanics(len) THEN Fail(b, "Panic", "capacity overflow")
                    ELSE IF len = 0 THEN Return(b, Tag("List", <<>>))
                    ELSE Push(b, Frame("list", list_type, len))
      [] tag = 10 -> CompoundIter(Push(c, Frame("compound", 0, 0)))
      [] tag = 11 \/ tag = 12 ->
           IF ~Avail(c, 4) THEN Eof(c)
           ELSE LET len == Word(c, 0)
                    b   == Advance(c, 4)
                IN  IF AllocPanics(len) THEN Fail(b, "Panic", "capacity overflow")
                    ELSE IF len = 0
                    THEN Return(b, Tag(IF tag = 11 THEN "IntArray" ELSE "LongArray", <<>>))
                    ELSE Push(b, Frame("array", tag, len))
      [] OTHER -> UnknownTag(c)

\* one iteration of the loop of read_nbt_compound (the innermost call)
CompoundIter(c) ==
    IF ~Avail(c, 1) THEN Eof(c)
    ELSE LET tag_type == At(c, 0)
             b == Advance(c, 1)
         IN  IF tag_type = 0
             THEN Return(Pop(b), Tag("Compound", Top(b).acc))
             ELSE LET s == ReadNbtString(b.d, b.pos)
                  IN  IF s.kind = "Err" THEN Fail(b, "Err", s.why)
                      ELSE ReadNbtPayload(
                               SetTop([b EXCEPT !.pos = s.pos],
                                      [Top(b) EXCEPT !.name = s.val]),
                               tag_type)

\* one iteration of `for _ in 0..len` of a list (tag 9)
ListIter(c) == ReadNbtPayload(c, Top(c).ltype)

\* one iteration of `for _ in 0..len` of an int or long array
ArrayIter(c) ==
    LET f == Top(c)
        w == IF f.ltype = 11 THEN 4 ELSE 8
        x == IF f.ltype = 11 THEN Word(c, 0) ELSE <<Word(c, 0), Word(c, 4)>>
        g == [f EXCEPT !.acc = Append(@, x), !.left = @ - 1]
        b == Advance(c, w)
    IN  IF ~Avail(c, w) THEN Eof(c)
        ELSE IF g.left = 0
        THEN Return(Pop(b), Tag(IF f.ltype = 11 THEN "IntArray" ELSE "LongArray", g.acc))
        ELSE SetTop(b, g)

\* the next loop iteration of the innermost active call
NbtStep(c) ==
    CASE Top(c).kind = "compound" -> CompoundIter(c)
      [] Top(c).kind = "list" -> ListIter(c)
      [] Top(c).kind = "array" -> ArrayIter(c)

RECURSIVE NbtRun(_)
NbtRun(c) == IF c.out.kind # "Running" THEN c ELSE NbtRun(NbtStep(c))

\* parse_nbt entered on a non-empty buffer: read_nbt_compound begins
NbtEnter(d) == Config(d, 0, <<Frame("compound", 0, 0)>>, Running)

\* the mutant: bytes left behind the end marker of the top-level compound
\* are an error
ParseNbtNoTrailing(d) ==
    IF d = <<>> THEN OkCompound(<<>>)
    ELSE LET c == NbtRun(NbtEnter(d))
         IN  IF c.out.kind = "Ok" /\ c.pos < Len(d)
             THEN [kind |-> "Err", why |-> "trailing bytes", val |-> <<>>]
             ELSE c.out

\* the mutant: data.is_empty() is not tested, read_nbt_compound always runs
ParseNbtNoEmptyCheck(d) == NbtRun(NbtEnter(d)).out

\* parse_nbt(data): the outcome
ParseNbt(d) == IF d = <<>> THEN OkCompound(<<>>) ELSE NbtRun(NbtEnter(d)).out

-----------------------------------------------------------------------------
(* decode_cca_entity_sync                                                  *)

Component(ctype, kind, val) ==
    [component_type |-> ctype, data |-> <<kind, val>>]

CcaOut(kind, why, p, comps) == [kind |-> kind, why |-> why, pos |-> p, comps |-> comps]

\* the mutant: the fallback pushes the rest as Unknown and the loop goes
\* on behind the type string instead of stopping
CcaIterNoBreak(d, p, comps) ==
    LET s == ReadString(d, p)
        nbt_start == s.pos
        remaining == Len(d) - nbt_start
        nbt_len   == U16BE(d[nbt_start + 1], d[nbt_start + 2])
        nbt_data  == Slice(d, nbt_start + 2, nbt_len)
        parsed    == ParseNbt(nbt_data)
    IN  IF s.kind = "None" THEN CcaOut("Err", "Failed to read component type", p, comps)
        ELSE IF s.kind = "Panic" THEN CcaOut("Panic", "capacity overflow", s.pos, comps)
        ELSE IF remaining >= 2 /\ remaining >= nbt_len + 2
        THEN IF parsed.kind = "Panic"
             THEN CcaOut("Panic", parsed.why, nbt_start + 2 + nbt_len, comps)
             ELSE CcaOut("Continue", "", nbt_start + 2 + nbt_len,
                         Append(comps,
                                IF parsed.kind = "Ok"
                                THEN Component(s.val, "ParsedNbt", parsed.val)
                                ELSE Component(s.val, "Nbt", nbt_data)))
        ELSE CcaOut(IF remaining = 0 THEN "Break" ELSE "Continue", "", nbt_start + 1,
                    Append(comps, Component(s.val, "Unknown",
                                            Slice(d, nbt_start, Len(d) - nbt_start))))

\* the mutant: the cursor is set behind the payload without the two framing
\* bytes counted
CcaIterShortAdvance(d, p, comps) ==
    LET s == ReadString(d, p)
        nbt_start == s.pos
        remaining == Len(d) - nbt_start
        nbt_len   == U16BE(d[nbt_start + 1], d[nbt_start + 2])
        nbt_data  == Slice(d, nbt_start + 2, nbt_len)
        parsed    == ParseNbt(nbt_data)
    IN  IF s.kind = "None" THEN CcaOut("Err", "Failed to read component type", p, comps)
        ELSE IF s.kind = "Panic" THEN CcaOut("Panic", "capacity overflow", s.pos, comps)
        ELSE IF remaining >= 2 /\ remaining >= nbt_len + 2
        THEN IF parsed.kind = "Panic"
             THEN CcaOut("Panic", parsed.why, nbt_start + 2 + nbt_len, comps)
             ELSE CcaOut("Continue", "", nbt_start + nbt_len,
                         Append(comps,
                                IF parsed.kind = "Ok"
                                THEN Component(s.val, "ParsedNbt", parsed.val)
                                ELSE Component(s.val, "Nbt", nbt_data)))
        ELSE CcaOut("Break", "", nbt_start,
                    Append(comps, Component(s.val, "Unknown",
                                            Slice(d, nbt_start, Len(d) - nbt_start))))

\* one iteration of the component loop at position p: "Continue" (the
\* framed branch), "Break" (the fallback), "Err" or "Panic"
CcaIter(d, p, comps) ==
    LET s == ReadString(d, p)
        nbt_start == s.pos
        remaining == Len(d) - nbt_start
        nbt_len   == U16BE(d[nbt_start + 1], d[nbt_start + 2])
        nbt_data  == Slice(d, nbt_start + 2, nbt_len)
        parsed    == ParseNbt(nbt_data)
    IN  IF s.kind = "None" THEN CcaOut("Err", "Failed to read component type", p, comps)
        ELSE IF s.kind = "Panic" THEN CcaOut("Panic", "capacity overflow", s.pos, comps)
        ELSE IF remaining >= 2 /\ remaining >= nbt_len + 2
        THEN IF parsed.kind = "Panic"
             THEN CcaOut("Panic", parsed.why, nbt_start + 2 + nbt_len, comps)
             ELSE CcaOut("Continue", "", nbt_start + 2 + nbt_len,
                         Append(comps,
                                IF parsed.kind = "Ok"
                                THEN Component(s.val, "ParsedNbt", parsed.val)
                                ELSE Component(s.val, "Nbt", nbt_data)))
        ELSE CcaOut("Break", "", nbt_start,
                    Append(comps, Component(s.val, "Unknown",
                                            Slice(d, nbt_start, Len(d) - nbt_start))))

\* Ok(CcaEntitySyncPacket { entity_id, components })
OkPacket(id, comps) ==
    [kind |-> "Ok", why |-> "", val |-> [entity_id |-> id, components |-> comps]]

Failure(kind, why) == [kind |-> kind, why |-> why, val |-> <<>>]

-----------------------------------------------------------------------------
(* The wire encoding of a tree (the format parse_nbt's header comment and  *)
(* the payload table describe), used to generate inputs and to state what  *)
(* a decode must give back.                                                *)

SeqsUpTo(S, n) == UNION {[1..k -> S] : k \in 0..n}

RECURSIVE Flatten(_)
Flatten(ss) == IF ss = <<>> THEN <<>> ELSE ss[1] \o Flatten(Tail(ss))

TagId(t) ==
    CASE t = "Byte" -> 1 [] t = "Short" -> 2 [] t = "Int" -> 3 [] t = "Long" -> 4
      [] t = "Float" -> 5 [] t = "Double" -> 6 [] t = "ByteArray" -> 7
      [] t = "String" -> 8 [] t = "List" -> 9 [] t = "Compound" -> 10
      [] t = "IntArray" -> 11 [] t = "LongArray" -> 12

EncI16(x) == <<(x \div 256) % 256, x % 256>>

EncI32(x) == <<(x \div 16777216) % 256, (x \div 65536) % 256, (x \div 256) % 256, x % 256>>

EncI64(w) == EncI32(w[1]) \o EncI32(w[2])

EncName(n) == EncI16(Len(n)) \o n

RECURSIVE EncPayload(_)
RECURSIVE EncEntries(_)
EncPayload(x) ==
    CASE TagT(x) = "Byte" -> <<TagV(x) % 256>>
      [] TagT(x) = "Short" -> EncI16(TagV(x))
      [] TagT(x) \in {"Int", "Float"} -> EncI32(TagV(x))
      [] TagT(x) \in {"Long", "Double"} -> EncI64(TagV(x))
      [] TagT(x) = "ByteArray" ->
           EncI32(Len(TagV(x))) \o Flatten([i \in 1..Len(TagV(x)) |-> <<TagV(x)[i] % 256>>])
      [] TagT(x) = "String" -> EncName(TagV(x))
      [] TagT(x) = "List" ->
           <<IF TagV(x) = <<>> THEN 0 ELSE TagId(TagT(TagV(x)[1]))>> \o EncI32(Len(TagV(x)))
             \o Flatten([i \in 1..Len(TagV(x)) |-> EncPayload(TagV(x)[i])])
      [] TagT(x) = "Compound" -> EncEntries(TagV(x)) \o <<0>>
      [] TagT(x) = "IntArray" ->
           EncI32(Len(TagV(x))) \o Flatten([i \in 1..Len(TagV(x)) |-> EncI32(TagV(x)[i])])
      [] TagT(x) = "LongArray" ->
           EncI32(Len(TagV(x))) \o Flatten([i \in 1..Len(TagV(x)) |-> EncI64(TagV(x)[i])])

EncEntries(tags) ==
    IF tags = <<>> THEN <<>>
    ELSE <<TagId(TagT(tags[1][2]))>> \o EncName(tags[1][1]) \o EncPayload(tags[1][2])
           \o EncEntries(Tail(tags))

EncodeNbt(tags) == EncEntries(tags) \o <<0>>

\* the standard base-128 encoding of n >= 0
RECURSIVE EncodeVarint(_)
EncodeVarint(n) ==
    IF n < 128 THEN <<n>> ELSE <<128 + (n % 128)>> \o EncodeVarint(n \div 128)

-----------------------------------------------------------------------------
(* The inputs the entry points are called with.                            *)

NameA == <<97>>
NameB == <<98>>

IntField(n) == << <<NameA, Tag("Int", n)>> >>

\* entries the generated compounds are built from: a repeated name, a
\* nested compound, a list
CoreEntries ==
    { <<NameA, Tag("Byte", 5)>>,
      <<NameA, Tag("Short", -2)>>,
      <<NameB, Tag("String", <<99>>)>>,
      <<NameA, Tag("Compound", << <<NameB, Tag("Byte", 7)>> >>)>>,
      <<NameB, Tag("List", <<Tag("Byte", 1), Tag("Byte", -1)>>)>> }

\* one entry of every other shape
RichEntries ==
    { <<NameA, Tag("Int", -3)>>,
      <<NameA, Tag("Long", <<1, -1>>)>>,
      <<NameA, Tag("Float", 1065353216)>>,
      <<NameA, Tag("Double", <<1072693248, 0>>)>>,
      <<NameA, Tag("ByteArray", <<-1, 2>>)>>,
      <<NameA, Tag("ByteArray", <<>>)>>,
      << <<>>, Tag("String", <<195, 169>>)>>,
      <<NameA, Tag("List", <<>>)>>,
      <<NameA, Tag("List", <<Tag("Compound", IntField(1)), Tag("Compound", IntField(2)),
                             Tag("Compound", IntField(3))>>)>>,
      <<NameA, Tag("List", <<Tag("List", <<Tag("Byte", 4)>>), Tag("List", <<>>)>>)>>,
      <<NameA, Tag("Compound", << <<NameB, Tag("Compound", <<>>)>> >>)>>,
      <<NameA, Tag("IntArray", <<3, -4>>)>>,
      <<NameA, Tag("LongArray", << <<0, 8>>, <<-1, -1>> >>)>> }

\* the generated compounds (NbtCompound.tags)
Trees == SeqsUpTo(CoreEntries, MaxTags) \cup {<<e>> : e \in RichEntries}

Encodings == {EncodeNbt(t) : t \in Trees}

\* an encoding cut short: a non-empty proper prefix
Prefixes == UNION {{SubSeq(e, 1, k) : k \in 1..(Len(e) - 1)} : e \in Encodings}

\* bytes written over one byte of an encoding: an end marker, a tag type
\* outside 0..12, a byte that makes a count huge or negative
BadBytes == {0, 99, 255}

Corrupted == UNION {{[e EXCEPT ![i] = b] : i \in 1..Len(e), b \in BadBytes} : e \in Encodings}

Trailing == {e \o <<77>> : e \in Encodings}

\* a byte array, byte list, int array or long array whose count asks for
\* more elements than follow
CountHeaders == {<<7, 0, 0>>, <<9, 0, 0, 1>>, <<11, 0, 0>>, <<12, 0, 0>>}

Counts == {<<0, 0, 0, 2>>, <<127, 255, 255, 255>>, <<255, 255, 255, 255>>, <<128, 0, 0, 0>>}

Oversized == {h \o c \o s : h \in CountHeaders, c \in Counts, s \in {<<>>, <<5>>}}

\* a tag type outside 0..12 where the compound loop reads one: at the top
\* level, after an entry, in a nested compound, two compounds deep, in the
\* first and in the second compound of a list
OpenPrefixes ==
    { <<>>, <<1, 0, 1, 97, 5>>, <<10, 0, 1, 97>>, <<10, 0, 0, 10, 0, 0>>,
      <<9, 0, 1, 97, 10, 0, 0, 0, 2>>, <<9, 0, 0, 10, 0, 0, 0, 2, 0>>,
      <<10, 0, 0, 1, 0, 0, 7>> }

BadTags == {13, 99, 255}

BadTagInputs ==
    {pre \o <<t>> \o post : pre \in OpenPrefixes, t \in BadTags,
                            post \in {<<>>, <<0, 0>>, <<0, 0, 0, 0>>, <<0, 1, 97, 5, 0, 0>>}}

\* a list whose element type is outside 1..12, declared with count 0, 1
\* or 2, at the top level and as the element of a list of lists
BadListInputs ==
    {pre \o <<t>> \o c \o post :
        pre \in {<<9, 0, 0>>, <<9, 0, 1, 97, 9, 0, 0, 0, 1>>},
        t \in {0} \cup BadTags,
        c \in {<<0, 0, 0, 0>>, <<0, 0, 0, 1>>, <<0, 0, 0, 2>>},
        post \in {<<0>>, <<5, 5, 0>>}}

NbtInputs ==
    {<<>>} \cup Encodings \cup Prefixes \cup Corrupted \cup Trailing \cup Oversized
      \cup BadTagInputs \cup BadListInputs

VarintBytes == {0, 1, 127, 128, 255}

VarintSamples == {0, 1, 127, 128, 255, 16383, 16384, 2097151, 2097152, 268435455,
                  268435456, 2147483647}

VarintInputs ==
    SeqsUpTo(VarintBytes, MaxVarintLen) \cup {EncodeVarint(n) : n \in VarintSamples}

\* VarInt length prefixes: 0..3, 128, a cut one, -1, i32::MIN, i32::MAX,
\* six groups, none
LenFrags ==
    { <<0>>, <<1>>, <<2>>, <<3>>, <<128, 1>>, <<128>>, <<255, 255, 255, 255, 15>>,
      <<128, 128, 128, 128, 8>>, <<255, 255, 255, 255, 7>>,
      <<128, 128, 128, 128, 128, 1>>, <<>> }

StrBytes == {97, 195, 169, 255}

StringInputs == {l \o b : l \in LenFrags, b \in SeqsUpTo(StrBytes, MaxStrLen)}

IdFrags == {<<1>>, <<>>}

\* component type strings: "a", "", two bytes taken from what follows, a
\* negative length
TypeFrags == {<<1, 97>>, <<0>>, <<2, 195>>, <<255, 255, 255, 255, 15>>}

\* what follows a type string: nothing, one byte, L = 0, a bad tag type, a
\* compound, L beyond the end, a negative count, bytes after the end marker
FrameFrags ==
    { <<>>, <<0>>, <<0, 0>>, <<0, 1, 99>>, <<0, 5, 1, 0, 0, 5, 0>>, <<0, 9, 1>>,
      <<0, 7, 7, 0, 0, 255, 255, 255, 255>>, <<0, 2, 0, 77>> }

CompFrags == {t \o f : t \in TypeFrags, f \in FrameFrags}

CcaInputs == {i \o Flatten(cs) : i \in IdFrags, cs \in SeqsUpTo(CompFrags, MaxComponents)}

Ops == {"read_varint", "read_string", "parse_nbt", "decode_cca_entity_sync"}

Inputs(o) ==
    CASE o = "read_varint" -> VarintInputs
      [] o = "read_string" -> StringInputs
      [] o = "parse_nbt" -> NbtInputs
      [] o = "decode_cca_entity_sync" -> CcaInputs

-----------------------------------------------------------------------------
(* The state machine: one call of one entry point on one input.            *)

Init ==
    /\ op \in Ops
    /\ data \in Inputs(op)
    /\ pc = "call"
    /\ cur = 0
    /\ stack = <<>>
    /\ entity_id = 0
    /\ components = <<>>
    /\ result = Running
    /\ steps = 0

\* read_varint on a fresh cursor
CallReadVarint ==
    /\ op = "read_varint" /\ pc = "call"
    /\ LET v == ReadVarint(data, 0)
       IN  /\ result' = [kind |-> IF v.ok THEN "Some" ELSE "None", why |-> "", val |-> v.val]
           /\ cur' = v.pos
    /\ pc' = "done"
    /\ UNCHANGED <<op, data, stack, entity_id, components, steps>>

\* read_string on a fresh cursor
CallReadString ==
    /\ op = "read_string" /\ pc = "call"
    /\ LET s == ReadString(data, 0)
       IN  /\ result' = [kind |-> s.kind, why |-> "", val |-> s.val]
           /\ cur' = s.pos
    /\ pc' = "done"
    /\ UNCHANGED <<op, data, stack, entity_id, components, steps>>

\* parse_nbt up to the first iteration of read_nbt_compound
ParseNbtEnter ==
    /\ op = "parse_nbt" /\ pc = "call"
    /\ IF data = <<>>
       THEN /\ result' = OkCompound(<<>>)
            /\ pc' = "done"
            /\ stack' = stack
       ELSE /\ stack' = NbtEnter(data).stack
            /\ pc' = "loop"
            /\ result' = result
    /\ UNCHANGED <<op, data, cur, entity_id, components, steps>>

\* the parser moves from its configuration to c
NbtMove(c) ==
    /\ cur' = c.pos
    /\ stack' = c.stack
    /\ result' = c.out
    /\ pc' = IF c.out.kind = "Running" THEN "loop" ELSE "done"
    /\ steps' = steps + 1
    /\ UNCHANGED <<op, data, entity_id, components>>

NbtAt(kind) ==
    /\ op = "parse_nbt" /\ pc = "loop"
    /\ Top(Config(data, cur, stack, result)).kind = kind

NbtCompoundIter == NbtAt("compound") /\ NbtMove(CompoundIter(Config(data, cur, stack, result)))

NbtListIter == NbtAt("list") /\ NbtMove(ListIter(Config(data, cur, stack, result)))

NbtArrayIter == NbtAt("array") /\ NbtMove(ArrayIter(Config(data, cur, stack, result)))

\* decode_cca_entity_sync up to the component loop
CcaReadId ==
    /\ op = "decode_cca_entity_sync" /\ pc = "call"
    /\ LET v == ReadVarint(data, 0)
       IN  IF v.ok
           THEN /\ entity_id' = v.val
                /\ cur' = v.pos
                /\ pc' = "loop"
                /\ result' = result
           ELSE /\ result' = Failure("Err", "Failed to read entity ID")
                /\ pc' = "done"
                /\ UNCHANGED <<entity_id, cur>>
    /\ UNCHANGED <<op, data, stack, components, steps>>

\* one iteration of the component loop
CcaComponent ==
    /\ op = "decode_cca_entity_sync" /\ pc = "loop"
    /\ cur < Len(data)
    /\ LET r == CcaIter(data, cur, components)
       IN  /\ cur' = r.pos
           /\ components' = IF r.kind \in {"Continue", "Break"} THEN r.comps ELSE <<>>
           /\ result' = CASE r.kind = "Continue" -> result
                          [] r.kind = "Break" -> OkPacket(entity_id, r.comps)
                          [] OTHER -> Failure(r.kind, r.why)
           /\ pc' = IF r.kind = "Continue" THEN "loop" ELSE "done"
    /\ steps' = steps + 1
    /\ UNCHANGED <<op, data, stack, entity_id>>

\* the loop condition fails: the packet is returned
CcaReturn ==
    /\ op = "decode_cca_entity_sync" /\ pc = "loop"
    /\ cur >= Len(data)
    /\ result' = OkPacket(entity_id, components)
    /\ pc' = "done"
    /\ UNCHANGED <<op, data, cur, stack, entity_id, components, steps>>

Next ==
    \/ CallReadVarint
    \/ CallReadString
    \/ ParseNbtEnter
    \/ NbtCompoundIter
    \/ NbtListIter
    \/ NbtArrayIter
    \/ CcaReadId
    \/ CcaComponent
    \/ CcaReturn

Spec == Init /\ [][Next]_vars

-----------------------------------------------------------------------------
(* Properties.                                                             *)

NbtDone == op = "parse_nbt" /\ pc = "done"

StringDone == op = "read_string" /\ pc = "done"

VarintDone == op = "read_varint" /\ pc = "done"

CcaDone == op = "decode_cca_entity_sync" /\ pc = "done"

\* the component loop is about to run an iteration
CcaAtLoop == op = "decode_cca_entity_sync" /\ pc = "loop" /\ cur < Len(data)

\* C1: parse_nbt returns Err on every input in which a required field needs
\* more bytes than remain: an encoding cut short at any byte, or a count of
\* tag 7, 9, 11 or 12 (also a negative one) that asks for more elements than
\* follow.  It returns neither Ok nor ends in a panic.
C1_TruncatedIsErr ==
    (NbtDone /\ data \in Prefixes \cup Oversized) => result.kind = "Err"

\* the declared length of the string at the cursor, as read_string uses it
\* (a usize), is more than the bytes that remain after it
DeclaredTooLong(d) ==
    LET v == ReadVarint(d, 0)
    IN  v.ok /\ (v.val < 0 \/ v.val > Len(d) - v.pos)

\* C2: read_string returns None when the VarInt length cannot be read, when
\* the declared length (also one that decodes to a negative i32) exceeds the
\* bytes remaining, or when the bytes are not UTF-8; it returns Some only
\* when exactly the declared number of bytes was there and was consumed.
C2_ReadStringNoneOrExact ==
    StringDone =>
        LET v == ReadVarint(data, 0)
            unreadable == ~v.ok
            badUtf8 == v.ok /\ ~DeclaredTooLong(data) /\ ~IsUtf8(Slice(data, v.pos, v.val))
        IN  /\ (unreadable \/ DeclaredTooLong(data) \/ badUtf8) => result.kind = "None"
            /\ result.kind = "Some" =>
                 /\ v.ok /\ v.val >= 0 /\ Len(data) - v.pos >= v.val
                 /\ cur = v.pos + v.val
                 /\ result.val = Slice(data, v.pos, v.val)

\* the type string read at the cursor, and what follows it
TypeAt(d, p) == ReadString(d, p)

AfterType(d, p) == Len(d) - TypeAt(d, p).pos

FrameLen(d, p) == U16BE(d[TypeAt(d, p).pos + 1], d[TypeAt(d, p).pos + 2])

\* the type string is read and the 16-bit length fits in what remains
Framed(d, p) ==
    /\ TypeAt(d, p).kind = "Some"
    /\ AfterType(d, p) >= 2
    /\ AfterType(d, p) >= FrameLen(d, p) + 2

\* the type string is read and the framing is missing or too long
Unframed(d, p) ==
    /\ TypeAt(d, p).kind = "Some"
    /\ (AfterType(d, p) < 2 \/ FrameLen(d, p) > AfterType(d, p) - 2)

\* C3: decode_cca_entity_sync returns Err exactly when the identifier or a
\* component's type string cannot be read, and returns no packet then;
\* every other input gives Ok, whatever the payloads hold.
C3_ErrIffIdOrTypeUnreadable ==
    [][ /\ (op = "decode_cca_entity_sync" /\ pc = "call") =>
              IF ReadVarint(data, 0).ok
              THEN result'.kind = "Running"
              ELSE result'.kind = "Err" /\ result'.val = <<>>
        /\ CcaAtLoop =>
              IF TypeAt(data, cur).kind = "Some"
              THEN result'.kind \in {"Running", "Ok"}
              ELSE result'.kind = "Err" /\ result'.val = <<>>
        /\ (op = "decode_cca_entity_sync" /\ pc = "loop" /\ cur >= Len(data)) =>
              result'.kind = "Ok" ]_vars

\* C4: when the 16-bit length after a type string fits, the payload is the
\* L bytes after the framing, the cursor moves by L+2, the component is
\* appended as ParsedNbt if parse_nbt succeeds on the payload and as Nbt
\* with those L bytes if it does not, and the loop goes on either way.
C4_FramedComponentAppended ==
    [][ (CcaAtLoop /\ Framed(data, cur)) =>
          LET t == TypeAt(data, cur)
              L == FrameLen(data, cur)
              payload == Slice(data, t.pos + 2, L)
          IN  /\ cur' = t.pos + L + 2
              /\ Len(components') = Len(components) + 1
              /\ SubSeq(components', 1, Len(components)) = components
              /\ components'[Len(components')] =
                   IF ParseNbt(payload).kind = "Ok"
                   THEN Component(t.val, "ParsedNbt", ParseNbt(payload).val)
                   ELSE Component(t.val, "Nbt", payload)
              /\ pc' = "loop" ]_vars

NoUnknownBeforeLast(comps) ==
    \A i \in 1..(Len(comps) - 1) : comps[i].data[1] # "Unknown"

\* C5: when fewer than 2 bytes follow a type string, or the 16-bit length
\* exceeds what follows the framing, one Unknown component holding every
\* byte from behind the type string to the end is appended, the loop stops
\* and the result is Ok; so Unknown occurs at most once, as the last one.
C5_UnknownFallbackEndsPacket ==
    /\ [][ (CcaAtLoop /\ Unframed(data, cur)) =>
             LET t == TypeAt(data, cur)
             IN  /\ components' =
                       Append(components,
                              Component(t.val, "Unknown",
                                        SubSeq(data, t.pos + 1, Len(data))))
                 /\ pc' = "done"
                 /\ result' = OkPacket(entity_id, components') ]_vars
    /\ [](NoUnknownBeforeLast(components)
          /\ (components # <<>> /\ components[Len(components)].data[1] = "Unknown"
                => CcaDone /\ result.kind = "Ok"))

\* a packet of two components decoded to the end, the second one Unknown
C5_Witness ==
    /\ CcaDone /\ result.kind = "Ok"
    /\ Len(result.val.components) = 2
    /\ result.val.components[1].data[1] = "ParsedNbt"
    /\ result.val.components[2].data[1] = "Unknown"
    /\ result.val.components[2].data[2] # <<>>

\* the first byte of d with a clear continuation bit among the first n, or 0
FirstClear(d, n) ==
    LET hits == {i \in 1..n : i <= Len(d) /\ d[i] < 128}
    IN  IF hits = {} THEN 0 ELSE CHOOSE i \in hits : \A j \in hits : i <= j

\* d begins with the standard encoding of a number in 0..2^31-1: at most
\* five groups, no needless last group, a fifth group of at most 7
StartsStandard(d) ==
    LET k == FirstClear(d, 5)
    IN  /\ k > 0
        /\ (k > 1 => d[k] # 0)
        /\ (k = 5 => d[k] <= 7)

RECURSIVE GroupSum(_, _)
\* the number the groups d[1..k] stand for
GroupSum(d, k) == IF k = 0 THEN 0 ELSE (d[1] % 128) + 128 * GroupSum(Tail(d), k - 1)

\* C6: for n in 0..2^31-1, read_varint on the standard base-128 encoding of
\* n returns Some(n) and moves the cursor by the length of the encoding;
\* [0x01] gives 1, [0x7F] gives 127, [0x80, 0x01] gives 128.
C6_VarintRoundTrip ==
    (VarintDone /\ StartsStandard(data)) =>
        LET k == FirstClear(data, 5)
            n == GroupSum(data, k)
        IN  /\ EncodeVarint(n) = SubSeq(data, 1, k)
            /\ result.kind = "Some"
            /\ result.val = n
            /\ cur = k

\* 2^31-1 decoded from its five groups
C6_Witness ==
    /\ VarintDone
    /\ data = EncodeVarint(2147483647)
    /\ result.kind = "Some" /\ result.val = 2147483647 /\ cur = 5

\* C7: read_varint returns None exactly when none of the first five bytes
\* has a clear continuation bit (the cursor ends first, or there are five
\* continuation bytes); it never reads more than five bytes.
C7_VarintNoneIffNoTerminator ==
    VarintDone =>
        /\ (result.kind = "None") = (FirstClear(data, 5) = 0)
        /\ (result.kind = "Some") = (FirstClear(data, 5) > 0)
        /\ cur <= 5
        /\ (result.kind = "Some" => cur = FirstClear(data, 5))

\* six groups: None after five bytes, the terminating sixth never read
C7_Witness ==
    /\ VarintDone
    /\ Len(data) = 6 /\ FirstClear(data, 5) = 0 /\ data[6] < 128
    /\ result.kind = "None" /\ cur = 5

\* a loop iteration of the parser or of the packet decoder is about to run
AtIteration == (op = "parse_nbt" /\ pc = "loop") \/ CcaAtLoop

\* the guards of the actions of Next: the call has a step to take
CanStep ==
    \/ pc = "call"
    \/ NbtAt("compound") \/ NbtAt("list") \/ NbtAt("array")
    \/ (op = "decode_cca_entity_sync" /\ pc = "loop")

\* C8: parse_nbt and decode_cca_entity_sync terminate: every iteration of
\* the compound, list, array and component loops (with the descents it
\* makes) moves the cursor forward or ends the call with an error, so the
\* iterations never outnumber the input bytes, and a call that has not
\* returned can always take its next step.
C8_EveryIterationConsumes ==
    /\ [][ AtIteration => (cur' > cur \/ (pc' = "done" /\ result'.kind = "Err")) ]_vars
    /\ [](steps <= Len(data) /\ cur <= Len(data))
    /\ [](pc # "done" => CanStep)

\* two lists deep below the top-level compound, after two iterations
C8_Witness ==
    /\ op = "parse_nbt" /\ pc = "loop"
    /\ Len(stack) = 3 /\ stack[2].kind = "list" /\ stack[3].kind = "list"
    /\ steps >= 2 /\ cur >= steps

\* the compound on top of st is closed and its value handed to its caller
Closes(st, st2, out2) ==
    LET top == st[Len(st)]
        val == Tag("Compound", top.acc)
        parent == st[Len(st) - 1]
        below == SubSeq(st, 1, Len(st) - 2)
    IN  IF Len(st) = 1 THEN out2 = OkCompound(top.acc) /\ st2 = <<>>
        ELSE IF parent.kind = "compound"
        THEN st2 = Append(below, [parent EXCEPT !.acc = Append(@, <<parent.name, val>>)])
        ELSE parent.left > 1 =>
               st2 = Append(below, [parent EXCEPT !.acc = Append(@, val), !.left = @ - 1])

\* C9: in the compound loop a tag-type byte of 0 closes the compound
\* without adding an entry; a tag-type byte outside 0..12 makes parse_nbt
\* return Err at any depth, with nothing of what was parsed and no attempt
\* to go on.
C9_EndMarkerAndUnknownTag ==
    /\ []((NbtDone /\ data \in BadTagInputs) => (result.kind = "Err" /\ result.val = <<>>))
    /\ [][ (NbtAt("compound") /\ cur < Len(data)) =>
             /\ data[cur + 1] = 0 => (cur' = cur + 1 /\ Closes(stack, stack', result'))
             /\ data[cur + 1] > 12 =>
                  (pc' = "done" /\ result'.kind = "Err" /\ result'.val = <<>>
                     /\ stack' = <<>>) ]_vars

\* tag type 13 met two compounds deep, with a well-formed rest behind it
C9_Witness ==
    /\ NbtDone
    /\ data = <<10, 0, 0, 10, 0, 0, 13, 0, 1, 97, 5, 0, 0>>
    /\ result.kind = "Err" /\ result.why = "Unknown NBT tag type"

\* C10: the tree parse_nbt returns keeps order and multiplicity: the entries
\* of every compound in input order, entries of the same name all kept, a
\* list of count N as N elements of the list's variant in input order.
C10_OrderAndMultiplicity ==
    NbtDone => \A t \in Trees :
                  data = EncodeNbt(t) => (result.kind = "Ok" /\ result.val = t)

\* two entries of the same name and different values, both returned
C10_Witness ==
    /\ NbtDone /\ result.kind = "Ok"
    /\ Len(result.val) = 2
    /\ result.val[1][1] = result.val[2][1]
    /\ result.val[1][2] # result.val[2][2]

\* C11: parse_nbt on an input of no bytes returns Ok with a compound of no
\* entries; so a component whose framing declares length 0 is appended as
\* ParsedNbt holding the empty compound.
C11_EmptyInputIsEmptyCompound ==
    /\ []((NbtDone /\ data = <<>>) => result = OkCompound(<<>>))
    /\ [][ (CcaAtLoop /\ Framed(data, cur) /\ FrameLen(data, cur) = 0) =>
             /\ components' =
                  Append(components, Component(TypeAt(data, cur).val, "ParsedNbt", <<>>))
             /\ cur' = TypeAt(data, cur).pos + 2 ]_vars

\* a packet whose first component has an empty type string and length 0
C11_Witness ==
    /\ op = "decode_cca_entity_sync"
    /\ Len(data) >= 4 /\ data[1] < 128 /\ data[2] = 0 /\ data[3] = 0 /\ data[4] = 0
    /\ components # <<>>
    /\ components[1] = Component(<<>>, "ParsedNbt", <<>>)
    /\ cur >= 4

\* the bits of the i32 v at offsets 7*(i-1) and up that group i can hold
\* (7 bits, or the 4 bits below bit 32 for the fifth group)
BitsOfGroup(v, i) == (v \div Pow2(7 * (i - 1))) % (IF i = 5 THEN 16 ELSE 128)

\* C12: whenever read_varint returns Some(v), v holds every payload bit of
\* the groups consumed, group i at bit offset 7*i; a fifth group with bits
\* that would land at bit 32 or above is not returned with those bits
\* dropped.
C12_VarintKeepsEveryBit ==
    (VarintDone /\ result.kind = "Some") =>
        \A i \in 1..cur : BitsOfGroup(result.val, i) = data[i] % 128

\* C13: the element tag-type byte of a list is validated against 1..12: a
\* list whose element type is outside 1..12 makes parse_nbt return Err
\* for every declared count, count 0 included.
C13_ListElementTypeValidated ==
    (NbtDone /\ data \in BadListInputs) => result.kind = "Err"

\* the bytes the type string at p occupies: its VarInt length and its text
TypeBytes(d, p) == (ReadVarint(d, p).pos - p) + ReadVarint(d, p).val

\* C14: in decode_cca_entity_sync the cursor is at most data.len() and
\* never decreases; the two framing bytes, the L-byte payload slice and the
\* remaining-bytes slice lie within the input; on every Ok return each
\* input byte has been accounted for exactly once: the identifier from
\* byte 0, each component from where the one before ended (type string,
\* then 2 framing bytes and L payload bytes), and either the cursor at the
\* end of the input or one last Unknown payload reaching to the end.
C14_CursorInBoundsBytesAccounted ==
    /\ [](op = "decode_cca_entity_sync" => (cur >= 0 /\ cur <= Len(data)))
    /\ [][ op = "decode_cca_entity_sync" => cur' >= cur ]_vars
    /\ [][ (op = "decode_cca_entity_sync" /\ pc = "call" /\ pc' = "loop") =>
             (cur' = ReadVarint(data, 0).pos /\ cur' >= 1) ]_vars
    /\ [][ (CcaAtLoop /\ TypeAt(data, cur).kind = "Some") =>
             LET t == TypeAt(data, cur)
             IN  /\ t.pos = cur + TypeBytes(data, cur)
                 /\ t.pos <= Len(data)
                 /\ AfterType(data, cur) >= 2 => t.pos + 2 <= Len(data)
                 /\ Framed(data, cur) => t.pos + 2 + FrameLen(data, cur) <= Len(data) ]_vars
    /\ [][ (CcaAtLoop /\ pc' = "loop") =>
             /\ Framed(data, cur)
             /\ cur' = cur + TypeBytes(data, cur) + 2 + FrameLen(data, cur)
             /\ Len(components') = Len(components) + 1 ]_vars
    /\ [][ (op = "decode_cca_entity_sync" /\ result'.kind = "Ok") =>
             \/ /\ pc = "loop" /\ cur = Len(data)
                /\ cur' = cur /\ result'.val.components = components
             \/ /\ CcaAtLoop /\ Unframed(data, cur)
                /\ cur' = cur + TypeBytes(data, cur)
                /\ result'.val.components =
                     Append(components,
                            Component(TypeAt(data, cur).val, "Unknown",
                                      SubSeq(data, cur' + 1, Len(data)))) ]_vars

\* a packet of two framed components returned with the cursor at the end
C14_Witness ==
    /\ CcaDone /\ result.kind = "Ok"
    /\ Len(components) = 2
    /\ components[2].data[1] # "Unknown"
    /\ cur = Len(data) /\ cur >= 10

\* bytes put behind an input
Suffixes == {<<>>, <<0>>, <<77>>, <<255, 255>>, <<13, 0, 0>>}

\* where read_nbt_compound leaves the cursor on the non-empty buffer d
ParseEnd(d) == NbtRun(NbtEnter(d)).pos

\* C15: the result of parse_nbt depends only on the bytes up to and
\* including the end marker of the top-level compound: on Ok the cursor
\* stands right behind that marker, and whatever follows it the result is
\* the same; in decode_cca_entity_sync a framed payload with bytes behind
\* the marker is appended as ParsedNbt of the compound before the marker
\* and the cursor passes over those bytes.
C15_BytesAfterEndMarkerIgnored ==
    /\ []((NbtDone /\ result.kind = "Ok" /\ data # <<>>) =>
            /\ cur >= 1 /\ data[cur] = 0
            /\ \A x \in Suffixes : ParseNbt(SubSeq(data, 1, cur) \o x) = result)
    /\ [][ (CcaAtLoop /\ Framed(data, cur) /\ FrameLen(data, cur) > 0) =>
             LET t == TypeAt(data, cur)
                 L == FrameLen(data, cur)
                 payload == Slice(data, t.pos + 2, L)
                 m == ParseEnd(payload)
             IN  (ParseNbt(SubSeq(payload, 1, m)).kind = "Ok" /\ payload[m] = 0) =>
                    /\ components' =
                         Append(components,
                                Component(t.val, "ParsedNbt",
                                          ParseNbt(SubSeq(payload, 1, m)).val))
                    /\ cur' = t.pos + 2 + L ]_vars

\* a compound with an entry parsed from an input with a byte behind its end
\* marker
C15_Witness ==
    /\ NbtDone /\ result.kind = "Ok"
    /\ result.val # <<>>
    /\ cur < Len(data)

====
